---------------------------- MODULE Spec2Model ----------------------------
(***************************************************************************)
(* Employee Attendance Tracker: the four tables (User, Employee,           *)
(* Attendance, Leave) and the handlers that read and write them            *)
(* (attendance/views.py, attendance/admin.py, delete_user_data.py).        *)
(*                                                                         *)
(* A row refers to a User by its unique username and to an Employee by its *)
(* unique employee_id; Attendance and Leave rows carry their own primary   *)
(* key, handed out by a counter as AUTOINCREMENT does.                     *)
(***************************************************************************)
EXTENDS Integers, Sequences, FiniteSets, TLC

(***************************************************************************)
(* Bounds of the model.                                                    *)
(***************************************************************************)
\* Resolution of a timestamp: ticks in one second (datetime has 10^6).
TicksPerSecond == 2
\* Attendance rows ever inserted (primary keys 1..MaxAttendancePk).
MaxAttendancePk == 2
\* Leave rows ever inserted (primary keys 1..MaxLeavePk).
MaxLeavePk == 1
\* Attendance rows ever inserted in the attendance specifications.
MaxMarkPk == 2
\* mark_attendance requests handled at the same time.
NumRequests == 2
\* Leave rows ever inserted in the leave specification.
MaxListedLeavePk == 2
\* Attendance rows ever inserted in the midnight specification.
MaxMidnightPk == 3
\* Attendance rows ever inserted in the report specification.
MaxReportPk == 3

(***************************************************************************)
(* Time: a timestamp is a number of ticks since 2024-01-01T00:00:00 UTC, a *)
(* date is a number of days since 2024-01-01 (local calendar).             *)
(***************************************************************************)
\* models.py: null=True on clock_in, clock_out, approved_at.
NullTime == -1
\* models.py: null=True on approved_by.
NullUser == "None"

\* the year the day numbers start in
EpochYear == 2000 + 24
\* settings.py: TIME_ZONE = "Asia/Kolkata", UTC+05:30 all year.
TzOffsetSeconds == 19800
SecondsPerDay == 24 * 3600

IsLeap(y) == (y % 4 = 0 /\ y % 100 # 0) \/ y % 400 = 0

\* calendar.monthrange(year, month)[1]
DaysInMonth(y, m) ==
    IF m = 2 THEN (IF IsLeap(y) THEN 29 ELSE 28)
    ELSE IF m \in {4, 6, 9, 11} THEN 30 ELSE 31

DaysInYear(y) == IF IsLeap(y) THEN 366 ELSE 365

RECURSIVE DaysBeforeYear(_)
\* days from 2024-01-01 to y-01-01, for y >= EpochYear
DaysBeforeYear(y) ==
    IF y <= EpochYear THEN 0 ELSE DaysBeforeYear(y - 1) + DaysInYear(y - 1)

RECURSIVE DaysBeforeMonth(_, _)
DaysBeforeMonth(y, m) ==
    IF m <= 1 THEN 0 ELSE DaysBeforeMonth(y, m - 1) + DaysInMonth(y, m - 1)

\* the date y-m-d as a day number
DateOf(y, m, d) == DaysBeforeYear(y) + DaysBeforeMonth(y, m) + (d - 1)

\* the aware datetime y-m-d h:mi:s (+ f ticks) in the local zone, as a timestamp
LocalDateTime(y, m, d, h, mi, s, f) ==
    (DateOf(y, m, d) * SecondsPerDay + (h * 60 + mi) * 60 + s - TzOffsetSeconds)
        * TicksPerSecond + f

\* a mutant of LocalDate: the date of the timestamp in UTC
LocalDateUtc(ts) == (ts \div TicksPerSecond) \div SecondsPerDay

\* timezone.localtime(timestamp).date()
LocalDate(ts) == ((ts \div TicksPerSecond) + TzOffsetSeconds) \div SecondsPerDay

\* int(x / d) for d > 0: Python's int() truncates toward zero
TruncDiv(x, d) == IF x >= 0 THEN x \div d ELSE -((-x) \div d)

Max(a, b) == IF a >= b THEN a ELSE b

(***************************************************************************)
(* Input domains.                                                          *)
(***************************************************************************)
Usernames == {"asha", "ravi"}
\* employee_id values in ascending (string) order
EmployeeIdOrder == <<"EMP1", "EMP2">>
EmployeeIds == {EmployeeIdOrder[i] : i \in DOMAIN EmployeeIdOrder}
\* models.py DEPARTMENT_CHOICES (two of the eight codes)
Departments == {"IT", "HR"}

T_0301_0900 == LocalDateTime(2024, 3, 1, 9, 0, 0, 0)
T_0301_1730 == LocalDateTime(2024, 3, 1, 17, 30, 0, 1)
T_0229_2350 == LocalDateTime(2024, 2, 29, 23, 50, 0, 0)
T_0301_0010 == LocalDateTime(2024, 3, 1, 0, 10, 0, 0)

T_0302_0900 == LocalDateTime(2024, 3, 2, 9, 0, 0, 0)
T_0302_1730 == LocalDateTime(2024, 3, 2, 17, 30, 0, 0)

\* the first and the last instant of 2024-03-01 in the local zone
T_0301_0000 == LocalDateTime(2024, 3, 1, 0, 0, 0, 0)
T_0301_2359 == LocalDateTime(2024, 3, 1, 23, 59, 59, TicksPerSecond - 1)

\* timestamps of the account and leave life cycle
LifecycleTimes == {T_0301_0900, T_0301_1730}
\* timestamps of the attendance specifications
AttendanceTimes == {T_0229_2350, T_0301_0010, T_0301_0900, T_0301_1730}
\* timestamps of the midnight specification: around the midnight that begins
\* 2024-03-01 and just before the one that ends it
MidnightTimes == {T_0229_2350, T_0301_0000, T_0301_0010, T_0301_2359}
\* timestamps of the report specification: two days of March, one of February
ReportTimes == {T_0229_2350, T_0301_0900, T_0302_0900, T_0302_1730}

VARIABLES
    users,              \* auth User rows: [username, is_active, is_staff]
    employees,          \* Employee rows: [user, employee_id, department]
    attendances,        \* Attendance rows
    leaves,             \* Leave rows
    nextAttendancePk,   \* next primary key of Attendance
    nextLeavePk,        \* next primary key of Leave
    response,           \* status of the last mark_attendance response
    requests            \* mark_attendance requests in flight

vars == <<users, employees, attendances, leaves, nextAttendancePk,
          nextLeavePk, response, requests>>

tables == <<users, employees, attendances, leaves>>

(***************************************************************************)
(* The empty database.                                                     *)
(***************************************************************************)
NoRequests == [p \in {} |-> 0]

Init ==
    /\ users = {}
    /\ employees = {}
    /\ attendances = {}
    /\ leaves = {}
    /\ nextAttendancePk = 1
    /\ nextLeavePk = 1
    /\ response = "none"
    /\ requests = NoRequests

(***************************************************************************)
(* Queries.                                                                *)
(***************************************************************************)
\* User.objects.filter(username=...)
UsersNamed(us, username) == {u \in us : u.username = username}

\* Employee.objects.filter(employee_id=...)
EmployeesWithId(es, employee_id) == {e \in es : e.employee_id = employee_id}

\* request.user.employee / Employee.objects.filter(user=...)
EmployeesOfUser(es, username) == {e \in es : e.user = username}

\* Attendance.objects.filter(employee=..., date=...)
AttendancesOn(rows, employee_id, date) ==
    {a \in rows : a.employee = employee_id /\ a.date = date}

(***************************************************************************)
(* register_employee (views.py).                                           *)
(***************************************************************************)
\* EmployeeRegisterForm.is_valid(): username, password, employee_id required
EmployeeRegisterFormValid(data) == data.username # "" /\ data.employee_id # ""

\* User.objects.create_user, then is_staff for an administrator; username
\* is unique in auth.User
CreateUser(us, data) ==
    IF UsersNamed(us, data.username) # {}
    THEN [raised |-> TRUE, rows |-> us]
    ELSE [raised |-> FALSE,
          rows |-> us \cup {[username |-> data.username, is_active |-> TRUE,
                             is_staff |-> data.is_admin]}]

\* a mutant of CreateEmployee: neither employee_id nor user is unique
CreateEmployeeUnchecked(es, data) ==
    [raised |-> FALSE,
     rows |-> es \cup {[user |-> data.username,
                        employee_id |-> data.employee_id,
                        department |-> data.department]}]

\* Employee.objects.create: employee_id is unique, user is one-to-one
CreateEmployee(es, data) ==
    IF EmployeesWithId(es, data.employee_id) # {}
            \/ EmployeesOfUser(es, data.username) # {}
    THEN [raised |-> TRUE, rows |-> es]
    ELSE [raised |-> FALSE,
          rows |-> es \cup {[user |-> data.username,
                             employee_id |-> data.employee_id,
                             department |-> data.department]}]

\* a mutant of Rollback: what the failed block wrote is kept
RollbackKeepsWrites(before, after) == after

\* leaving "with transaction.atomic()" by an exception: the tables are as
\* they were when the block was entered
Rollback(before, after) == before

\* the body of register_employee's "with transaction.atomic()" block
RegisterTransaction(us, es, data) ==
    LET u == CreateUser(us, data)
        e == CreateEmployee(es, data)
        before == [users |-> us, employees |-> es]
    IN  IF u.raised
        THEN [raised |-> TRUE,
              db |-> Rollback(before, [users |-> us, employees |-> es])]
        ELSE IF e.raised
        THEN [raised |-> TRUE,
              db |-> Rollback(before, [users |-> u.rows, employees |-> es])]
        ELSE [raised |-> FALSE,
              db |-> [users |-> u.rows, employees |-> e.rows]]

register_employee(data) ==
    IF ~EmployeeRegisterFormValid(data)
    THEN UNCHANGED vars
    ELSE LET t == RegisterTransaction(users, employees, data)
         IN  /\ users' = t.db.users
             /\ employees' = t.db.employees
             /\ UNCHANGED <<attendances, leaves, nextAttendancePk,
                            nextLeavePk, response, requests>>

(***************************************************************************)
(* mark_attendance (views.py) and Attendance.save (models.py).             *)
(***************************************************************************)
\* a timestamp field whose text DateTimeField cannot parse
MalformedTime == -2

\* a mutant of AttendanceMarkFormValid: the action is not checked
AttendanceMarkFormValidAnyAction(data) ==
    data.employee_id # "" /\ data.timestamp # MalformedTime

\* AttendanceMarkForm.is_valid(): employee_id required, action a choice,
\* timestamp empty or a datetime
AttendanceMarkFormValid(data) ==
    /\ data.employee_id # ""
    /\ data.action \in {"IN", "OUT"}
    /\ data.timestamp # MalformedTime

\* Attendance(employee=..., date=...) with the field defaults
NewAttendance(pk, employee_id, date) ==
    [pk |-> pk, employee |-> employee_id, date |-> date,
     clock_in |-> NullTime, clock_out |-> NullTime, worked_seconds |-> 0]

\* a mutant of InsertAttendance: no unique_together constraint
InsertAttendanceUnchecked(rows, row) == [raised |-> FALSE, rows |-> rows \cup {row}]

\* INSERT of an Attendance row under Meta.unique_together (employee, date)
InsertAttendance(rows, row) ==
    IF AttendancesOn(rows, row.employee, row.date) # {}
    THEN [raised |-> TRUE, rows |-> rows]
    ELSE [raised |-> FALSE, rows |-> rows \cup {row}]

\* the create half of get_or_create: on IntegrityError the row is read again
CreateOrGet(rows, pk, employee_id, date) ==
    LET ins == InsertAttendance(rows, NewAttendance(pk, employee_id, date))
    IN  IF ins.raised
        THEN [created |-> FALSE, rows |-> rows,
              obj |-> CHOOSE a \in AttendancesOn(rows, employee_id, date) : TRUE]
        ELSE [created |-> TRUE, rows |-> ins.rows,
              obj |-> NewAttendance(pk, employee_id, date)]

\* Attendance.objects.get_or_create(employee=emp, date=date)
GetOrCreate(rows, pk, employee_id, date) ==
    LET found == AttendancesOn(rows, employee_id, date)
    IN  IF found # {}
        THEN [created |-> FALSE, rows |-> rows, obj |-> CHOOSE a \in found : TRUE]
        ELSE CreateOrGet(rows, pk, employee_id, date)

\* a mutant of SetClock: an IN mark also clears clock_out
SetClockResetsOther(obj, action, timestamp) ==
    IF action = "IN"
    THEN [obj EXCEPT !.clock_in = timestamp, !.clock_out = NullTime]
    ELSE [obj EXCEPT !.clock_out = timestamp]

\* a mutant of SetClock: an OUT mark needs a clock_in
SetClockOutNeedsIn(obj, action, timestamp) ==
    IF action = "IN"
    THEN [obj EXCEPT !.clock_in = timestamp]
    ELSE IF obj.clock_in = NullTime THEN obj
    ELSE [obj EXCEPT !.clock_out = timestamp]

\* attendance.clock_in = timestamp / attendance.clock_out = timestamp
SetClock(obj, action, timestamp) ==
    IF action = "IN"
    THEN [obj EXCEPT !.clock_in = timestamp]
    ELSE [obj EXCEPT !.clock_out = timestamp]

\* a mutant of WorkedSeconds: the difference is not clamped at zero
WorkedSecondsUnclamped(clock_in, clock_out) ==
    TruncDiv(clock_out - clock_in, TicksPerSecond)

\* max(0, int((clock_out - clock_in).total_seconds()))
WorkedSeconds(clock_in, clock_out) ==
    Max(0, TruncDiv(clock_out - clock_in, TicksPerSecond))

\* a mutant of AttendanceSave: worked_seconds is recomputed only when
\* clock_out is not before clock_in
AttendanceSaveIfOrdered(obj) ==
    IF obj.clock_in # NullTime /\ obj.clock_out # NullTime
            /\ obj.clock_out >= obj.clock_in
    THEN [obj EXCEPT !.worked_seconds = WorkedSeconds(obj.clock_in, obj.clock_out)]
    ELSE obj

\* Attendance.save(): worked_seconds is recomputed when both clocks are set
\* and otherwise left as it is
AttendanceSave(obj) ==
    IF obj.clock_in # NullTime /\ obj.clock_out # NullTime
    THEN [obj EXCEPT !.worked_seconds = WorkedSeconds(obj.clock_in, obj.clock_out)]
    ELSE obj

\* a mutant of WriteRow: the table is left with the saved row alone
WriteRowDropsOthers(rows, obj) == {obj}

\* super().save(): UPDATE of every field of the row with obj's primary key,
\* INSERT when no such row is left
WriteRow(rows, obj) == {a \in rows : a.pk # obj.pk} \cup {obj}

\* form.cleaned_data.get("timestamp") or timezone.now()
MarkTimestamp(data, now) == IF data.timestamp = NullTime THEN now ELSE data.timestamp

\* one whole mark_attendance request; now is timezone.now()
mark_attendance(data, now) ==
    IF ~AttendanceMarkFormValid(data)
    THEN /\ response' = "400"
         /\ UNCHANGED <<tables, nextAttendancePk, nextLeavePk, requests>>
    ELSE IF EmployeesWithId(employees, data.employee_id) = {}
    THEN /\ response' = "404"
         /\ UNCHANGED <<tables, nextAttendancePk, nextLeavePk, requests>>
    ELSE LET timestamp == MarkTimestamp(data, now)
             date == LocalDate(timestamp)
             goc == GetOrCreate(attendances, nextAttendancePk,
                                data.employee_id, date)
             attendance == AttendanceSave(SetClock(goc.obj, data.action, timestamp))
         IN  /\ attendances' = WriteRow(goc.rows, attendance)
             /\ nextAttendancePk' =
                    IF goc.created THEN nextAttendancePk + 1 ELSE nextAttendancePk
             /\ response' = "ok"
             /\ UNCHANGED <<users, employees, leaves, nextLeavePk, requests>>

\* the Attendance table and primary-key counter one mark_attendance request
\* leaves behind, for composing requests: lines 78-98 as a function
MarkApplied(rows, pk, es, data, now) ==
    IF ~AttendanceMarkFormValid(data) \/ EmployeesWithId(es, data.employee_id) = {}
    THEN [rows |-> rows, pk |-> pk]
    ELSE LET timestamp == MarkTimestamp(data, now)
             goc == GetOrCreate(rows, pk, data.employee_id, LocalDate(timestamp))
             attendance == AttendanceSave(SetClock(goc.obj, data.action, timestamp))
         IN  [rows |-> WriteRow(goc.rows, attendance),
              pk |-> IF goc.created THEN pk + 1 ELSE pk]

(***************************************************************************)
(* Who is asking: request.user of a handler behind @login_required or      *)
(* @staff_member_required, and of the admin site.                          *)
(***************************************************************************)
\* @login_required: an existing, active User
LoggedIn(username) ==
    \E u \in users : u.username = username /\ u.is_active

\* @staff_member_required and the admin site: active and is_staff
StaffMember(username) ==
    \E u \in users : u.username = username /\ u.is_active /\ u.is_staff

\* request.user.is_staff
IsStaff(username) == \E u \in users : u.username = username /\ u.is_staff

(***************************************************************************)
(* Leave: apply_leave (views.py), approve_leaves and reject_leaves         *)
(* (admin.py).                                                             *)
(***************************************************************************)
NullDate == -1

\* LeaveApplyForm.is_valid(): start_date and end_date required
LeaveApplyFormValid(data) == data.start_date # NullDate /\ data.end_date # NullDate

\* form.save(commit=False); leave.employee = ...; leave.save():
\* status defaults to PENDING, applied_at is auto_now_add
NewLeave(pk, employee_id, data, now) ==
    [pk |-> pk, employee |-> employee_id,
     start_date |-> data.start_date, end_date |-> data.end_date,
     status |-> "PENDING", applied_at |-> now,
     approved_by |-> NullUser, approved_at |-> NullTime]

apply_leave(username, data, now) ==
    /\ LoggedIn(username)
    /\ IF ~LeaveApplyFormValid(data)
       THEN UNCHANGED vars
       ELSE IF EmployeesOfUser(employees, username) = {}
       THEN \* request.user.employee raises RelatedObjectDoesNotExist
            UNCHANGED vars
       ELSE LET emp == CHOOSE e \in EmployeesOfUser(employees, username) : TRUE
            IN  /\ leaves' = leaves \cup
                        {NewLeave(nextLeavePk, emp.employee_id, data, now)}
                /\ nextLeavePk' = nextLeavePk + 1
                /\ UNCHANGED <<users, employees, attendances,
                               nextAttendancePk, response, requests>>

\* a mutant of LeaveList: everyone is shown every leave
LeaveListUnfiltered(rows, es, username, is_staff) ==
    [status |-> "ok", leaves |-> rows]

\* the leaves leave_list hands to the template: all of them for staff, those
\* of request.user.employee otherwise (without an Employee the lookup raises)
LeaveList(rows, es, username, is_staff) ==
    IF is_staff
    THEN [status |-> "ok", leaves |-> rows]
    ELSE IF EmployeesOfUser(es, username) = {}
    THEN [status |-> "error", leaves |-> {}]
    ELSE LET emp == CHOOSE e \in EmployeesOfUser(es, username) : TRUE
         IN  [status |-> "ok",
              leaves |-> {l \in rows : l.employee = emp.employee_id}]

leave_list(username) ==
    /\ LoggedIn(username)
    /\ LeaveList(leaves, employees, username, IsStaff(username)).status
            \in {"ok", "error"}
    /\ UNCHANGED vars

\* a mutant of UpdateLeaves: only the status is written
UpdateLeavesStatusOnly(rows, queryset, status, now, username) ==
    {IF l.pk \in queryset THEN [l EXCEPT !.status = status] ELSE l : l \in rows}

\* a mutant of UpdateLeaves: a decided leave can be re-opened
UpdateLeavesToggle(rows, queryset, status, now, username) ==
    {IF l.pk \in queryset
        THEN [l EXCEPT !.status = IF l.status = "PENDING" THEN status ELSE "PENDING",
                       !.approved_at = now, !.approved_by = username]
        ELSE l : l \in rows}

\* a mutant of UpdateLeaves: the update stamps applied_at as well
UpdateLeavesStampsApplied(rows, queryset, status, now, username) ==
    {IF l.pk \in queryset
        THEN [l EXCEPT !.status = status, !.approved_at = now,
                       !.approved_by = username, !.applied_at = now]
        ELSE l : l \in rows}

\* queryset.update(status=..., approved_at=timezone.now(),
\*                 approved_by=request.user): one UPDATE of the selected rows
UpdateLeaves(rows, queryset, status, now, username) ==
    {IF l.pk \in queryset
        THEN [l EXCEPT !.status = status, !.approved_at = now,
                       !.approved_by = username]
        ELSE l : l \in rows}

\* the rows an admin action is applied to: a non-empty selection
Selections(pks) == SUBSET pks \ {{}}

approve_leaves(username, queryset, now) ==
    /\ StaffMember(username)
    /\ queryset \in Selections({l.pk : l \in leaves})
    /\ leaves' = UpdateLeaves(leaves, queryset, "APPROVED", now, username)
    /\ UNCHANGED <<users, employees, attendances, nextAttendancePk,
                   nextLeavePk, response, requests>>

reject_leaves(username, queryset, now) ==
    /\ StaffMember(username)
    /\ queryset \in Selections({l.pk : l \in leaves})
    /\ leaves' = UpdateLeaves(leaves, queryset, "REJECTED", now, username)
    /\ UNCHANGED <<users, employees, attendances, nextAttendancePk,
                   nextLeavePk, response, requests>>

(***************************************************************************)
(* Termination and activation: terminate_employee, activate_employee       *)
(* (views.py), activate_users, deactivate_users (admin.py).                *)
(***************************************************************************)
\* a mutant of SetActive: a deactivated employee's rows are removed
SetActiveDropsUser(us, usernames, flag) ==
    IF flag
    THEN {IF u.username \in usernames THEN [u EXCEPT !.is_active = flag] ELSE u
            : u \in us}
    ELSE {u \in us : u.username \notin usernames}

\* emp.user.is_active = flag; emp.user.save(), for each of the users
SetActive(us, usernames, flag) ==
    {IF u.username \in usernames THEN [u EXCEPT !.is_active = flag] ELSE u
        : u \in us}

ToggleEmployee(username, employee_id, flag) ==
    /\ StaffMember(username)
    /\ LET found == EmployeesWithId(employees, employee_id)
       IN  IF found = {}
           THEN UNCHANGED users
           ELSE users' = SetActive(users, {e.user : e \in found}, flag)
    /\ UNCHANGED <<employees, attendances, leaves, nextAttendancePk,
                   nextLeavePk, response, requests>>

terminate_employee(username, employee_id) ==
    ToggleEmployee(username, employee_id, FALSE)

activate_employee(username, employee_id) ==
    ToggleEmployee(username, employee_id, TRUE)

ToggleUsers(username, queryset, flag) ==
    /\ StaffMember(username)
    /\ queryset \in Selections({e.employee_id : e \in employees})
    /\ users' = SetActive(users,
                    {e.user : e \in {x \in employees : x.employee_id \in queryset}},
                    flag)
    /\ UNCHANGED <<employees, attendances, leaves, nextAttendancePk,
                   nextLeavePk, response, requests>>

activate_users(username, queryset) == ToggleUsers(username, queryset, TRUE)

deactivate_users(username, queryset) == ToggleUsers(username, queryset, FALSE)

\* the queryset of user_list without a search string: the Employees whose
\* User is active
UserList(us, es) ==
    {e \in es : \E u \in us : u.username = e.user /\ u.is_active}

user_list(username) ==
    /\ StaffMember(username)
    /\ UserList(users, employees) \subseteq employees
    /\ UNCHANGED vars

(***************************************************************************)
(* Hard delete (delete_user_data.py) under the on_delete rules of          *)
(* models.py; db is the four tables.                                       *)
(***************************************************************************)
Database == [users |-> users, employees |-> employees,
             attendances |-> attendances, leaves |-> leaves]

\* Attendance.objects.filter(employee=employee).delete()
DeleteAttendancesOf(db, employee_id) ==
    [db EXCEPT !.attendances = {a \in @ : a.employee # employee_id}]

\* Leave.objects.filter(employee=employee).delete()
DeleteLeavesOf(db, employee_id) ==
    [db EXCEPT !.leaves = {l \in @ : l.employee # employee_id}]

\* employee.delete(): the Employee row and, by on_delete=CASCADE of
\* Attendance.employee and Leave.employee, the rows that refer to it.
\* Employee.user is the referring side of the one-to-one: the User stays.
DeleteEmployee(db, emp) ==
    [db EXCEPT !.employees = @ \ {emp},
               !.attendances = {a \in @ : a.employee # emp.employee_id},
               !.leaves = {l \in @ : l.employee # emp.employee_id}]

RECURSIVE DeleteEmployees(_, _)
DeleteEmployees(db, emps) ==
    IF emps = {} THEN db
    ELSE LET emp == CHOOSE e \in emps : TRUE
         IN  DeleteEmployees(DeleteEmployee(db, emp), emps \ {emp})

\* user.delete(): the User row; by on_delete=CASCADE of Employee.user its
\* Employee (and what cascades from that); by on_delete=SET_NULL of
\* Leave.approved_by the leaves it decided keep a null approver
DeleteUser(db, username) ==
    LET cascaded == DeleteEmployees(db, EmployeesOfUser(db.employees, username))
    IN  [cascaded EXCEPT
            !.users = {u \in @ : u.username # username},
            !.leaves = {IF l.approved_by = username
                           THEN [l EXCEPT !.approved_by = NullUser]
                           ELSE l : l \in @}]

\* the "with transaction.atomic()" block of delete_user_by_employee_id
DeleteByEmployeeIdTransaction(db, emp) ==
    DeleteEmployee(DeleteLeavesOf(DeleteAttendancesOf(db, emp.employee_id),
                                  emp.employee_id), emp)

SetDatabase(db) ==
    /\ users' = db.users
    /\ employees' = db.employees
    /\ attendances' = db.attendances
    /\ leaves' = db.leaves

delete_user_by_employee_id(employee_id) ==
    LET found == EmployeesWithId(employees, employee_id)
    IN  /\ IF found = {}
           THEN UNCHANGED tables
           ELSE SetDatabase(DeleteByEmployeeIdTransaction(
                    Database, CHOOSE e \in found : TRUE))
        /\ UNCHANGED <<nextAttendancePk, nextLeavePk, response, requests>>

delete_user_by_username(username) ==
    LET emps == EmployeesOfUser(employees, username)
    IN  /\ IF UsersNamed(users, username) = {}
           THEN UNCHANGED tables
           ELSE IF emps # {}
           THEN SetDatabase(DeleteByEmployeeIdTransaction(
                    Database, CHOOSE e \in emps : TRUE))
           ELSE \* Employee.DoesNotExist: the user is deleted directly
                SetDatabase(DeleteUser(Database, username))
        /\ UNCHANGED <<nextAttendancePk, nextLeavePk, response, requests>>

\* where the block of one employee raises in a bulk delete: at none of its
\* statements, or at the delete of the Attendance rows, of the Leave rows,
\* or of the Employee
FailurePoints == {"none", "attendance", "leave", "employee"}

\* the "with transaction.atomic()" block of one employee in a bulk delete,
\* raising at the statement named by point
BulkDeleteTransaction(db, emp, point) ==
    LET a == DeleteAttendancesOf(db, emp.employee_id)
        l == DeleteLeavesOf(a, emp.employee_id)
        e == DeleteEmployee(l, emp)
    IN  IF point = "attendance" THEN [raised |-> TRUE, db |-> Rollback(db, db)]
        ELSE IF point = "leave" THEN [raised |-> TRUE, db |-> Rollback(db, a)]
        ELSE IF point = "employee" THEN [raised |-> TRUE, db |-> Rollback(db, l)]
        ELSE [raised |-> FALSE, db |-> e]

RECURSIVE BulkDeleteLoopAborts(_, _, _, _)
\* a mutant of BulkDeleteLoop: the first exception ends the loop
BulkDeleteLoopAborts(db, emps, fail, count) ==
    IF emps = {} THEN [db |-> db, count |-> count]
    ELSE LET emp == CHOOSE e \in emps : TRUE
             t == BulkDeleteTransaction(db, emp, fail[emp.employee_id])
         IN  IF t.raised THEN [db |-> t.db, count |-> count]
             ELSE BulkDeleteLoopAborts(t.db, emps \ {emp}, fail, count + 1)

RECURSIVE BulkDeleteLoop(_, _, _, _)
\* "for emp in ...: try: with transaction.atomic(): ...; count += 1
\*  except Exception: print": an exception rolls the employee's block back
\* and the loop goes on with the next employee
BulkDeleteLoop(db, emps, fail, count) ==
    IF emps = {} THEN [db |-> db, count |-> count]
    ELSE LET emp == CHOOSE e \in emps : TRUE
             t == BulkDeleteTransaction(db, emp, fail[emp.employee_id])
         IN  BulkDeleteLoop(t.db, emps \ {emp}, fail,
                            IF t.raised THEN count ELSE count + 1)

\* Employee.objects.filter(user__is_active=False)
InactiveEmployees(us, es) ==
    {e \in es : \E u \in us : u.username = e.user /\ ~u.is_active}

\* Employee.objects.filter(department=department)
EmployeesOfDepartment(es, department) == {e \in es : e.department = department}

delete_all_inactive_users(fail) ==
    /\ SetDatabase(BulkDeleteLoop(Database, InactiveEmployees(users, employees),
                                  fail, 0).db)
    /\ UNCHANGED <<nextAttendancePk, nextLeavePk, response, requests>>

bulk_delete_by_department(department, fail) ==
    /\ SetDatabase(BulkDeleteLoop(Database,
                                  EmployeesOfDepartment(employees, department),
                                  fail, 0).db)
    /\ UNCHANGED <<nextAttendancePk, nextLeavePk, response, requests>>

(***************************************************************************)
(* monthly_report (views.py).                                              *)
(***************************************************************************)
RECURSIVE SumWorkedSeconds(_)
\* Sum("worked_seconds") over a group of rows
SumWorkedSeconds(rows) ==
    IF rows = {} THEN 0
    ELSE LET r == CHOOSE x \in rows : TRUE
         IN  r.worked_seconds + SumWorkedSeconds(rows \ {r})

RECURSIVE SumPresentNeedsClockOut(_)
\* a mutant of SumPresent: a row counts only when it has a clock_out too
SumPresentNeedsClockOut(rows) ==
    IF rows = {} THEN 0
    ELSE LET r == CHOOSE x \in rows : TRUE
         IN  (IF r.clock_in # NullTime /\ r.clock_out # NullTime THEN 1 ELSE 0)
                + SumPresentNeedsClockOut(rows \ {r})

RECURSIVE SumPresent(_)
\* Sum(Case(When(clock_in__isnull=False, then=1), default=0)) over a group
SumPresent(rows) ==
    IF rows = {} THEN 0
    ELSE LET r == CHOOSE x \in rows : TRUE
         IN  (IF r.clock_in # NullTime THEN 1 ELSE 0) + SumPresent(rows \ {r})

\* Attendance.objects.filter(date__range=[start_date, end_date])
AttendancesInMonth(rows, year, month) ==
    {a \in rows : /\ DateOf(year, month, 1) <= a.date
                  /\ a.date <= DateOf(year, month, DaysInMonth(year, month))}

\* a mutant of ReportQuery: the department filter is applied to everyone and
\* the viewer's own narrowing only when no department is asked for
ReportQueryFilterFirst(rows, es, username, is_staff, year, month, department) ==
    LET inMonth == AttendancesInMonth(rows, year, month)
        ofDept == {e.employee_id : e \in {x \in es : x.department = department}}
        own == {e.employee_id : e \in EmployeesOfUser(es, username)}
    IN  IF department # ""
        THEN {a \in inMonth : a.employee \in ofDept}
        ELSE IF ~is_staff THEN {a \in inMonth : a.employee \in own}
        ELSE inMonth

\* att_qs of monthly_report: the month's rows, narrowed to the viewer's own
\* Employee when the viewer is not staff, and to the department only for staff
ReportQuery(rows, es, username, is_staff, year, month, department) ==
    LET inMonth == AttendancesInMonth(rows, year, month)
        own == {e.employee_id : e \in EmployeesOfUser(es, username)}
        narrowed == IF ~is_staff
                    THEN {a \in inMonth : a.employee \in own}
                    ELSE inMonth
        ofDept == {e.employee_id : e \in {x \in es : x.department = department}}
    IN  IF department # "" /\ is_staff
        THEN {a \in narrowed : a.employee \in ofDept}
        ELSE narrowed

\* one row of the report: the group of an employee's rows in att_qs
ReportRow(att_qs, es, employee_id) ==
    LET group == {a \in att_qs : a.employee = employee_id}
        emp == CHOOSE e \in es : e.employee_id = employee_id
    IN  [employee_id |-> employee_id,
         department |-> emp.department,
         days_present |-> SumPresent(group),
         total_seconds |-> SumWorkedSeconds(group)]

\* values(...).annotate(...).order_by("emp_id"), then the rows loop
ReportRows(att_qs, es) ==
    LET ids == {a.employee : a \in att_qs} \cap {e.employee_id : e \in es}
        ordered == SelectSeq(EmployeeIdOrder, LAMBDA id : id \in ids)
    IN  [i \in DOMAIN ordered |-> ReportRow(att_qs, es, ordered[i])]

\* what monthly_report hands to the template for a logged-in viewer
MonthlyReport(username, year, month, department) ==
    IF ~IsStaff(username) /\ EmployeesOfUser(employees, username) = {}
    THEN [status |-> "redirect", rows |-> <<>>,
          working_days |-> DaysInMonth(year, month)]
    ELSE [status |-> "ok",
          rows |-> ReportRows(ReportQuery(attendances, employees, username,
                                          IsStaff(username), year, month,
                                          department), employees),
          working_days |-> DaysInMonth(year, month)]

\* total_present_days: the running sum of the rows loop
RECURSIVE TotalPresentDays(_)
TotalPresentDays(rows) ==
    IF rows = <<>> THEN 0
    ELSE Head(rows).days_present + TotalPresentDays(Tail(rows))

\* n / d rounded to the nearest integer, halves to the even one, as the
\* format specification ".1f" rounds
RoundHalfEven(n, d) ==
    LET q == n \div d
        r == n % d
    IN  IF 2 * r < d THEN q
        ELSE IF 2 * r > d THEN q + 1
        ELSE IF q % 2 = 0 THEN q ELSE q + 1

\* a mutant of AverageAttendance: working_days is left out of the divisor
AverageAttendancePerEmployee(total_present_days, total_employees, working_days) ==
    IF total_employees > 0
    THEN [text |-> "tenths",
          tenths |-> RoundHalfEven(1000 * total_present_days, total_employees)]
    ELSE [text |-> "0%", tenths |-> 0]

\* average_attendance: the percentage with one decimal, in tenths of a
\* percent, or the text "0%" when there is no row
AverageAttendance(total_present_days, total_employees, working_days) ==
    IF total_employees > 0
    THEN [text |-> "tenths",
          tenths |-> RoundHalfEven(1000 * total_present_days,
                                   total_employees * working_days)]
    ELSE [text |-> "0%", tenths |-> 0]

\* the summary statistics of the report's context
ReportSummary(username, year, month, department) ==
    LET report == MonthlyReport(username, year, month, department)
    IN  [total_employees |-> Len(report.rows),
         total_present_days |-> TotalPresentDays(report.rows),
         average_attendance |->
            AverageAttendance(TotalPresentDays(report.rows), Len(report.rows),
                              report.working_days)]

monthly_report(username, year, month, department) ==
    /\ LoggedIn(username)
    /\ MonthlyReport(username, year, month, department).status
            \in {"ok", "redirect"}
    /\ UNCHANGED vars

(***************************************************************************)
(* mark_attendance step by step, for requests handled at the same time:    *)
(* the query of get_or_create, its INSERT, and the save are three database *)
(* statements of a request, and other requests' statements come between.   *)
(***************************************************************************)
RequestIds == 1..NumRequests

\* lines 78-93: validation, the employee, the date, and get_or_create's query
MarkGet(p, data, now) ==
    /\ p \notin DOMAIN requests
    /\ IF ~AttendanceMarkFormValid(data)
       THEN /\ response' = "400"
            /\ UNCHANGED requests
       ELSE IF EmployeesWithId(employees, data.employee_id) = {}
       THEN /\ response' = "404"
            /\ UNCHANGED requests
       ELSE LET timestamp == MarkTimestamp(data, now)
                date == LocalDate(timestamp)
                found == AttendancesOn(attendances, data.employee_id, date)
                req == [employee_id |-> data.employee_id, action |-> data.action,
                        timestamp |-> timestamp, date |-> date]
            IN  /\ requests' = [q \in DOMAIN requests \cup {p} |->
                        IF q # p THEN requests[q]
                        ELSE IF found # {}
                        THEN [pc |-> "save", req |-> req,
                              obj |-> CHOOSE a \in found : TRUE]
                        ELSE [pc |-> "create", req |-> req,
                              obj |-> NewAttendance(0, data.employee_id, date)]]
                /\ UNCHANGED response
    /\ UNCHANGED <<tables, nextAttendancePk, nextLeavePk>>

\* line 93: get_or_create's INSERT, or its second query on IntegrityError
MarkCreate(p) ==
    /\ p \in DOMAIN requests
    /\ requests[p].pc = "create"
    /\ LET r == requests[p].req
           c == CreateOrGet(attendances, nextAttendancePk, r.employee_id, r.date)
       IN  /\ attendances' = c.rows
           /\ nextAttendancePk' =
                  IF c.created THEN nextAttendancePk + 1 ELSE nextAttendancePk
           /\ requests' = [requests EXCEPT ![p].pc = "save", ![p].obj = c.obj]
    /\ UNCHANGED <<users, employees, leaves, nextLeavePk, response>>

\* lines 94-107: the field is set on the object read earlier and saved
MarkSave(p) ==
    /\ p \in DOMAIN requests
    /\ requests[p].pc = "save"
    /\ LET r == requests[p].req
           attendance == AttendanceSave(
                            SetClock(requests[p].obj, r.action, r.timestamp))
       IN  /\ attendances' = WriteRow(attendances, attendance)
           /\ requests' = [requests EXCEPT ![p].pc = "done", ![p].obj = attendance]
    /\ response' = "ok"
    /\ UNCHANGED <<users, employees, leaves, nextAttendancePk, nextLeavePk>>

(***************************************************************************)
(* Inputs of the handlers.                                                 *)
(***************************************************************************)
\* registration forms: asha registers as an IT employee, ravi as an HR
\* administrator, each under either employee_id; one form lacks the username
RegisterForms ==
    {[username |-> "asha", employee_id |-> id, department |-> "IT",
      is_admin |-> FALSE] : id \in EmployeeIds}
    \cup {[username |-> "ravi", employee_id |-> id, department |-> "HR",
           is_admin |-> TRUE] : id \in EmployeeIds}
    \cup {[username |-> "", employee_id |-> "EMP1", department |-> "IT",
           is_admin |-> FALSE]}

\* an employee_id no Employee has
UnknownEmployeeId == "EMP9"

LifecycleMarkForms ==
    [employee_id : EmployeeIds, action : {"IN", "OUT"},
     timestamp : {T_0301_0900}]

\* forms of mark_attendance: every employee, action and timestamp (or none),
\* and one form each with an unknown employee_id, without employee_id, with
\* an action that is no choice, and with a timestamp that is no datetime
MarkForms ==
    [employee_id : EmployeeIds, action : {"IN", "OUT"},
     timestamp : AttendanceTimes \cup {NullTime}]
    \cup {[employee_id |-> UnknownEmployeeId, action |-> "IN",
           timestamp |-> T_0301_0900],
          [employee_id |-> "", action |-> "IN", timestamp |-> T_0301_0900],
          [employee_id |-> "EMP1", action |-> "BREAK", timestamp |-> T_0301_0900],
          [employee_id |-> "EMP1", action |-> "OUT", timestamp |-> MalformedTime]}

\* timezone.now() when the request is handled
MarkClock(data) == {T_0301_0900}

LeaveForms ==
    {[start_date |-> DateOf(2024, 3, 4), end_date |-> DateOf(2024, 3, 5)],
     [start_date |-> NullDate, end_date |-> DateOf(2024, 3, 5)]}

ReportYears == {2024}
ReportMonths == {2, 3}
ReportDepartments == Departments \cup {""}

(***************************************************************************)
(* Spec: every handler, each request handled whole, from the empty         *)
(* database.                                                               *)
(***************************************************************************)
Register == \E data \in RegisterForms : register_employee(data)

Mark ==
    /\ \E data \in LifecycleMarkForms : mark_attendance(data, T_0301_0900)
    /\ nextAttendancePk' <= MaxAttendancePk + 1

ApplyLeave ==
    /\ \E u \in Usernames, data \in LeaveForms : apply_leave(u, data, T_0301_0900)
    /\ nextLeavePk' <= MaxLeavePk + 1

Approve ==
    \E u \in Usernames, qs \in SUBSET (1..MaxLeavePk) :
        approve_leaves(u, qs, T_0301_1730)

Reject ==
    \E u \in Usernames, qs \in SUBSET (1..MaxLeavePk) :
        reject_leaves(u, qs, T_0301_1730)

Terminate == \E u \in Usernames, id \in EmployeeIds : terminate_employee(u, id)

Activate == \E u \in Usernames, id \in EmployeeIds : activate_employee(u, id)

AdminActivate ==
    \E u \in Usernames, qs \in SUBSET EmployeeIds : activate_users(u, qs)

AdminDeactivate ==
    \E u \in Usernames, qs \in SUBSET EmployeeIds : deactivate_users(u, qs)

DeleteByEmployeeId == \E id \in EmployeeIds : delete_user_by_employee_id(id)

DeleteByUsername == \E u \in Usernames : delete_user_by_username(u)

Report ==
    \E u \in Usernames, y \in ReportYears, m \in ReportMonths,
       d \in ReportDepartments : monthly_report(u, y, m, d)

\* which employees' blocks raise in a bulk delete, and where
BulkFailures == [EmployeeIds -> FailurePoints]

\* the failures the bulk deletes are run with: a block raises at its last
\* statement or not at all (raising earlier rolls back to the same tables)
BulkFailureInputs == [EmployeeIds -> {"none", "employee"}]

DeleteInactive == \E fail \in BulkFailureInputs : delete_all_inactive_users(fail)

DeleteDepartment ==
    \E dept \in Departments, fail \in BulkFailureInputs :
        bulk_delete_by_department(dept, fail)

ListLeaves == \E u \in Usernames : leave_list(u)

ListUsers == \E u \in Usernames : user_list(u)

Next ==
    \/ Register
    \/ Mark
    \/ ApplyLeave
    \/ Approve
    \/ Reject
    \/ Terminate
    \/ Activate
    \/ AdminActivate
    \/ AdminDeactivate
    \/ DeleteByEmployeeId
    \/ DeleteByUsername
    \/ DeleteInactive
    \/ DeleteDepartment
    \/ Report
    \/ ListLeaves
    \/ ListUsers

Spec == Init /\ [][Next]_vars

(***************************************************************************)
(* The attendance specifications start with two registered employees:      *)
(* asha (IT, not staff) and ravi (HR, an administrator).                   *)
(***************************************************************************)
InitRegistered ==
    /\ users = {[username |-> "asha", is_active |-> TRUE, is_staff |-> FALSE],
                [username |-> "ravi", is_active |-> TRUE, is_staff |-> TRUE]}
    /\ employees = {[user |-> "asha", employee_id |-> "EMP1", department |-> "IT"],
                    [user |-> "ravi", employee_id |-> "EMP2", department |-> "HR"]}
    /\ attendances = {}
    /\ leaves = {}
    /\ nextAttendancePk = 1
    /\ nextLeavePk = 1
    /\ response = "none"
    /\ requests = NoRequests

\* SpecAttendance: mark_attendance and monthly_report, each request whole
MarkAny ==
    /\ \E data \in MarkForms : \E now \in MarkClock(data) :
            mark_attendance(data, now)
    /\ nextAttendancePk' <= MaxMarkPk + 1

NextAttendance ==
    \/ MarkAny
    \/ Report

SpecAttendance == InitRegistered /\ [][NextAttendance]_vars

\* SpecConcurrent: NumRequests mark_attendance requests, statement by statement
RequestGet ==
    \E p \in RequestIds, data \in MarkForms : \E now \in MarkClock(data) :
        MarkGet(p, data, now)

RequestCreate ==
    /\ \E p \in RequestIds : MarkCreate(p)
    /\ nextAttendancePk' <= MaxMarkPk + 1

RequestSave == \E p \in RequestIds : MarkSave(p)

NextConcurrent ==
    \/ RequestGet
    \/ RequestCreate
    \/ RequestSave

SpecConcurrent == InitRegistered /\ [][NextConcurrent]_vars

\* SpecLeaves: two employees' leaves from application to decision, accounts
\* terminated and activated, and the listing
ApplyForLeave ==
    /\ \E u \in Usernames, data \in LeaveForms : apply_leave(u, data, T_0301_0900)
    /\ nextLeavePk' <= MaxListedLeavePk + 1

ApproveListed ==
    \E u \in Usernames, qs \in SUBSET (1..MaxListedLeavePk) :
        approve_leaves(u, qs, T_0301_1730)

RejectListed ==
    \E u \in Usernames, qs \in SUBSET (1..MaxListedLeavePk) :
        reject_leaves(u, qs, T_0301_1730)

NextLeaves ==
    \/ ApplyForLeave
    \/ ApproveListed
    \/ RejectListed
    \/ Terminate
    \/ Activate
    \/ ListLeaves

SpecLeaves == InitRegistered /\ [][NextLeaves]_vars

\* SpecMidnight: marks on either side of a local midnight
MidnightMarkForms ==
    [employee_id : EmployeeIds, action : {"IN", "OUT"}, timestamp : MidnightTimes]

MarkAroundMidnight ==
    /\ \E data \in MidnightMarkForms : mark_attendance(data, T_0301_0900)
    /\ nextAttendancePk' <= MaxMidnightPk + 1

NextMidnight ==
    \/ MarkAroundMidnight
    \/ Report

SpecMidnight == InitRegistered /\ [][NextMidnight]_vars

\* SpecReport: marks on two days of March and one of February, and the
\* monthly report
ReportMarkForms ==
    [employee_id : EmployeeIds, action : {"IN", "OUT"}, timestamp : ReportTimes]

MarkForReport ==
    /\ \E data \in ReportMarkForms : mark_attendance(data, T_0301_0900)
    /\ nextAttendancePk' <= MaxReportPk + 1

NextReport ==
    \/ MarkForReport
    \/ Report

SpecReport == InitRegistered /\ [][NextReport]_vars

(***************************************************************************)
(* Properties.                                                             *)
(***************************************************************************)
Decided == {"APPROVED", "REJECTED"}

\* C1: every Attendance row has worked_seconds = max(0, whole seconds from
\* clock_in to clock_out) when both are set and 0 otherwise; it is never
\* negative.
WorkedSecondsConsistent ==
    \A a \in attendances :
        /\ a.worked_seconds >= 0
        /\ a.worked_seconds =
              IF a.clock_in = NullTime \/ a.clock_out = NullTime THEN 0
              ELSE IF a.clock_out < a.clock_in THEN 0
              ELSE (a.clock_out - a.clock_in) \div TicksPerSecond

\* IN 09:00 then OUT 17:30 on 2024-03-01 gives 30600, and a row whose
\* clock_out precedes its clock_in is clamped to 0
WorkedSecondsWitness ==
    /\ \E a \in attendances :
          /\ a.date = DateOf(2024, 3, 1)
          /\ a.clock_in = T_0301_0900 /\ a.clock_out = T_0301_1730
          /\ a.worked_seconds = 30600
    /\ \E a \in attendances :
          /\ a.clock_in # NullTime /\ a.clock_out # NullTime
          /\ a.clock_out < a.clock_in /\ a.worked_seconds = 0

\* C2: at most one Attendance row per (employee, date), also when the
\* statements of concurrent mark_attendance requests interleave.
OneRowPerEmployeeDate ==
    \A a, b \in attendances :
        (a.employee = b.employee /\ a.date = b.date) => a = b

\* a request whose query found no row is about to INSERT although another
\* request has inserted the row for the same employee and date meanwhile
RacingCreateWitness ==
    \E p, q \in DOMAIN requests :
        /\ p # q
        /\ requests[p].pc = "create"
        /\ requests[q].pc \in {"save", "done"}
        /\ requests[q].req.employee_id = requests[p].req.employee_id
        /\ requests[q].req.date = requests[p].req.date
        /\ AttendancesOn(attendances, requests[p].req.employee_id,
                         requests[p].req.date) # {}

\* C3: once a Leave is APPROVED or REJECTED no approve or reject action
\* changes its status again.
DecidedStatusFrozen ==
    [][\A l \in leaves : \A m \in leaves' :
          (l.status \in Decided /\ m.pk = l.pk) => m.status = l.status]_vars

\* C4: after delete_user_by_employee_id, or delete_user_by_username for a
\* user with an Employee, neither the Employee, nor its Attendance and Leave
\* rows, nor the linked User row remain.
HardDeleteRemovesAccount ==
    [][\A emp \in employees :
          (\/ delete_user_by_employee_id(emp.employee_id)
           \/ delete_user_by_username(emp.user))
          => /\ EmployeesWithId(employees', emp.employee_id) = {}
             /\ {a \in attendances' : a.employee = emp.employee_id} = {}
             /\ {l \in leaves' : l.employee = emp.employee_id} = {}
             /\ UsersNamed(users', emp.user) = {}]_vars

\* C5: a registration attempt adds a User together with its Employee or
\* adds nothing; with a taken employee_id no User is added, with a taken
\* username no Employee is added.
RegistrationAllOrNothing ==
    [][\A data \in RegisterForms :
          register_employee(data) =>
            \/ users' = users /\ employees' = employees
            \/ /\ UsersNamed(users, data.username) = {}
               /\ EmployeesWithId(employees, data.employee_id) = {}
               /\ \E u \in users' \ users, e \in employees' \ employees :
                     /\ users' = users \cup {u}
                     /\ employees' = employees \cup {e}
                     /\ u.username = data.username
                     /\ e.user = u.username
                     /\ e.employee_id = data.employee_id]_vars

\* an Employee holds EMP1 and a form asks for EMP1 under a username not yet
\* taken: the User is created, the Employee is refused
DuplicateEmployeeIdWitness ==
    \E data \in RegisterForms :
        /\ EmployeeRegisterFormValid(data)
        /\ UsersNamed(users, data.username) = {}
        /\ EmployeesWithId(employees, data.employee_id) # {}
        /\ ~CreateUser(users, data).raised
        /\ CreateEmployee(employees, data).raised

\* the viewer's own Employee ids
OwnEmployeeIds(username) ==
    {e.employee_id : e \in EmployeesOfUser(employees, username)}

\* C6: for a viewer who is not staff the monthly report holds only rows of
\* the viewer's own Employee, whatever year, month and department are asked
\* for, and is the report of the viewer's own Attendance rows alone.
NonStaffReportOwnRowsOnly ==
    \A u \in users : \A y \in ReportYears, m \in ReportMonths :
        ~u.is_staff =>
            LET own == {a \in attendances : a.employee \in OwnEmployeeIds(u.username)}
                alone == ReportRows(AttendancesInMonth(own, y, m), employees)
            IN  \A d \in ReportDepartments :
                    LET rows == MonthlyReport(u.username, y, m, d).rows
                    IN  /\ Len(rows) <= 1
                        /\ \A i \in DOMAIN rows :
                              rows[i].employee_id \in OwnEmployeeIds(u.username)
                        /\ rows = alone

\* asha (IT, not staff) asks for department HR in a month in which both she
\* and ravi (HR) have rows: the report is her own row
NonStaffReportWitness ==
    /\ \E a \in AttendancesInMonth(attendances, 2024, 3) : a.employee = "EMP1"
    /\ \E a \in AttendancesInMonth(attendances, 2024, 3) : a.employee = "EMP2"
    /\ \E e \in employees :
          e.user = "asha" /\ e.employee_id = "EMP1" /\ e.department = "IT"
    /\ \E e \in employees : e.employee_id = "EMP2" /\ e.department = "HR"
    /\ ~IsStaff("asha")
    /\ LET rows == MonthlyReport("asha", 2024, 3, "HR").rows
       IN  Len(rows) = 1 /\ rows[1].employee_id = "EMP1"

DecidedNeverPendingAgain ==
    [][\A l \in leaves : \A m \in leaves' :
          (l.status \in Decided /\ m.pk = l.pk) => m.status \in Decided]_vars

\* a decided leave, an Attendance row and a terminated account: apply,
\* approve or reject, mark and terminate have acted
DecidedLeaveWitness ==
    /\ \E l \in leaves : l.status \in Decided
    /\ attendances # {}
    /\ \E u \in users : ~u.is_active

\* what terminate (flag FALSE) or activate (flag TRUE) of these Employee
\* rows may change: the is_active flag of their Users, nothing else
OnlyActiveFlagSet(emps, flag) ==
    /\ employees' = employees
    /\ attendances' = attendances
    /\ leaves' = leaves
    /\ \A u \in users :
          IF \E e \in emps : e.user = u.username
          THEN [u EXCEPT !.is_active = flag] \in users'
          ELSE u \in users'
    /\ {u.username : u \in users'} = {u.username : u \in users}
    /\ Cardinality(users') = Cardinality(users)

\* C9: terminate and activate, as staff views and as admin bulk actions,
\* set the linked User's is_active and change or delete no other row.
TerminateActivateFrame ==
    [][/\ \A u \in Usernames, id \in EmployeeIds :
            /\ terminate_employee(u, id) =>
                  OnlyActiveFlagSet(EmployeesWithId(employees, id), FALSE)
            /\ activate_employee(u, id) =>
                  OnlyActiveFlagSet(EmployeesWithId(employees, id), TRUE)
       /\ \A u \in Usernames, qs \in SUBSET EmployeeIds :
            /\ deactivate_users(u, qs) =>
                  OnlyActiveFlagSet({e \in employees : e.employee_id \in qs}, FALSE)
            /\ activate_users(u, qs) =>
                  OnlyActiveFlagSet({e \in employees : e.employee_id \in qs}, TRUE)
      ]_vars

\* a terminated employee beside an active one, with the terminated one's
\* Employee, Attendance and Leave rows in place
TerminatedWitness ==
    \E u \in users, e \in employees :
        /\ ~u.is_active /\ e.user = u.username
        /\ \E a \in attendances : a.employee = e.employee_id
        /\ \E l \in leaves : l.employee = e.employee_id
        /\ \E v \in users : v.is_active

\* C10: a successful mark_attendance writes the one row of its employee and
\* the local date of its timestamp (creating it if absent): the clock of its
\* action is the timestamp, the row's other clock and all other rows are as
\* before.
MarkUpsertsOneRow ==
    [][\A data \in MarkForms : \A now \in MarkClock(data) :
          (response' = "ok" /\ mark_attendance(data, now)) =>
            LET ts == IF data.timestamp = NullTime THEN now ELSE data.timestamp
                before == AttendancesOn(attendances, data.employee_id, LocalDate(ts))
                after == AttendancesOn(attendances', data.employee_id, LocalDate(ts))
            IN  /\ attendances' \ after = attendances \ before
                /\ Cardinality(after) = 1
                /\ \A r \in after :
                      /\ data.action = "IN" => r.clock_in = ts
                      /\ data.action = "OUT" => r.clock_out = ts
                      /\ \A o \in before :
                            /\ r.pk = o.pk
                            /\ data.action = "IN" => r.clock_out = o.clock_out
                            /\ data.action = "OUT" => r.clock_in = o.clock_in
                      /\ before = {} =>
                            /\ data.action = "IN" => r.clock_out = NullTime
                            /\ data.action = "OUT" => r.clock_in = NullTime
         ]_vars

\* 00:10 local time on 2024-03-01 is 2024-02-29 in UTC: the mark is on the
\* row of 2024-03-01, whose clock_out a later mark has set, beside the row
\* of the day before
MarkUpsertWitness ==
    /\ response = "ok"
    /\ \E a \in attendances :
          /\ a.employee = "EMP1" /\ a.date = DateOf(2024, 3, 1)
          /\ a.clock_in = T_0301_0010 /\ a.clock_out = T_0301_1730
    /\ \E a \in attendances :
          /\ a.employee = "EMP1" /\ a.date = DateOf(2024, 2, 29)
          /\ a.clock_in = T_0229_2350 /\ a.clock_out = NullTime

\* what a refused mark_attendance leaves alone: every table and counter
MarkChangedNothing ==
    UNCHANGED <<users, employees, attendances, leaves, nextAttendancePk,
                nextLeavePk, requests>>

\* C11: mark_attendance without employee_id, or with an action other than IN
\* and OUT, answers 400; with an employee_id no Employee has it answers 404;
\* either way no Attendance row is created or modified and nothing else
\* changes.
MarkErrorsChangeNothing ==
    [][\A data \in MarkForms : \A now \in MarkClock(data) :
          mark_attendance(data, now) =>
            LET malformed == \/ data.employee_id = ""
                             \/ data.action \notin {"IN", "OUT"}
                unknown == \A e \in employees : e.employee_id # data.employee_id
            IN  /\ malformed => (response' = "400" /\ MarkChangedNothing)
                /\ (~malformed /\ unknown /\ data.timestamp # MalformedTime)
                      => (response' = "404" /\ MarkChangedNothing)
                /\ response' \in {"400", "404"} => MarkChangedNothing
         ]_vars

\* a mark has been refused with 404 while Attendance rows with clocks set
\* are stored
MarkRefusedWitness ==
    /\ response = "404"
    /\ \E a \in attendances : a.clock_in # NullTime /\ a.clock_out # NullTime

\* C12: an OUT mark for an employee and date without a row succeeds and
\* creates the row with clock_out the timestamp, clock_in null and
\* worked_seconds 0; an IN mark on a row that has only clock_out fills
\* clock_in on that same row and keeps its clock_out.
OutBeforeInPermitted ==
    [][\A data \in MarkForms : \A now \in MarkClock(data) :
          (/\ data.action \in {"IN", "OUT"}
           /\ data.timestamp # MalformedTime
           /\ \E e \in employees : e.employee_id = data.employee_id
           /\ mark_attendance(data, now)) =>
            LET ts == IF data.timestamp = NullTime THEN now ELSE data.timestamp
                before == AttendancesOn(attendances, data.employee_id, LocalDate(ts))
            IN  /\ (data.action = "OUT" /\ before = {}) =>
                      /\ response' = "ok"
                      /\ \E r \in attendances' \ attendances :
                            /\ attendances' = attendances \cup {r}
                            /\ r.employee = data.employee_id
                            /\ r.date = LocalDate(ts)
                            /\ r.clock_out = ts
                            /\ r.clock_in = NullTime
                            /\ r.worked_seconds = 0
                /\ \A o \in before :
                      (data.action = "IN" /\ o.clock_in = NullTime
                            /\ o.clock_out # NullTime) =>
                        /\ response' = "ok"
                        /\ \E r \in attendances' :
                              /\ attendances' = (attendances \ {o}) \cup {r}
                              /\ r.pk = o.pk /\ r.employee = o.employee
                              /\ r.date = o.date
                              /\ r.clock_in = ts
                              /\ r.clock_out = o.clock_out
         ]_vars

\* EMP1's row of 2024-03-01 holds only a clock_out, which no sequence of
\* marks beginning with IN leaves behind; EMP2's row holds both clocks
OutOnlyRowWitness ==
    /\ response = "ok"
    /\ \E a \in attendances :
          /\ a.employee = "EMP1" /\ a.date = DateOf(2024, 3, 1)
          /\ a.clock_in = NullTime /\ a.clock_out = T_0301_0900
          /\ a.worked_seconds = 0
    /\ \E a \in attendances :
          /\ a.employee = "EMP2"
          /\ a.clock_in # NullTime /\ a.clock_out # NullTime

\* employee_id a comes before employee_id b in ascending order
IdBefore(a, b) ==
    \E i, j \in DOMAIN EmployeeIdOrder :
        i < j /\ EmployeeIdOrder[i] = a /\ EmployeeIdOrder[j] = b

\* the Attendance rows of an employee dated in a month
RecordsInMonth(employee_id, year, month) ==
    LET first == DateOf(year, month, 1)
    IN  {a \in attendances :
            /\ a.employee = employee_id
            /\ a.date - first \in 0..(DaysInMonth(year, month) - 1)}

DaysWithClockIn(employee_id, year, month) ==
    {a.date - DateOf(year, month, 1) + 1 :
        a \in {r \in RecordsInMonth(employee_id, year, month) :
                    r.clock_in # NullTime}}

\* C14: in every monthly report each row's days_present is at most the
\* number of days of the month on which the employee has a record with a
\* clock_in, hence at most the days in the month; the sum over the rows is
\* at most rows * days in the month; the average attendance is the rounded
\* percentage of that sum in rows * days and at most 100%; with no row it is
\* the text "0%" and nothing is divided.
ReportTotalsBounded ==
    \A u \in users : \A y \in ReportYears, m \in ReportMonths,
                         d \in ReportDepartments :
        u.is_active =>
            LET report == MonthlyReport(u.username, y, m, d)
                summary == ReportSummary(u.username, y, m, d)
                rows == report.rows
                average == summary.average_attendance
                capacity == Len(rows) * DaysInMonth(y, m)
            IN  /\ report.working_days = DaysInMonth(y, m)
                /\ \A i \in DOMAIN rows :
                      LET days == DaysWithClockIn(rows[i].employee_id, y, m)
                      IN  /\ days \subseteq 1..DaysInMonth(y, m)
                          /\ rows[i].days_present <= Cardinality(days)
                          /\ rows[i].days_present <= DaysInMonth(y, m)
                /\ summary.total_present_days <= capacity
                /\ Len(rows) = 0 <=> average.text = "0%"
                /\ Len(rows) > 0 =>
                      /\ 0 <= average.tenths /\ average.tenths <= 1000
                      /\ 2 * (average.tenths * capacity
                                - 1000 * summary.total_present_days) <= capacity
                      /\ 2 * (1000 * summary.total_present_days
                                - average.tenths * capacity) <= capacity

\* March 2024 has two rows and three present days of 2 * 31, 4.8%, while
\* February 2024 has no row and the average "0%"
ReportAverageWitness ==
    /\ LET summary == ReportSummary("ravi", 2024, 3, "")
       IN  /\ summary.total_employees = 2
           /\ summary.total_present_days = 3
           /\ summary.average_attendance.text = "tenths"
           /\ summary.average_attendance.tenths = 48
    /\ LET summary == ReportSummary("ravi", 2024, 2, "")
       IN  /\ summary.total_employees = 0
           /\ summary.average_attendance.text = "0%"
    /\ \E a \in attendances :
          a.employee = "EMP1" /\ MonthlyReport("asha", 2024, 3, "").rows # <<>>

\* C15: a Leave created by apply_leave is PENDING, belongs to the applying
\* user's own Employee and carries the time of the request as applied_at;
\* no later step, approve and reject included, changes the applied_at (or
\* the employee) of a stored Leave.
LeaveCreatedPendingOnce ==
    [][/\ \A u \in Usernames, data \in LeaveForms :
            apply_leave(u, data, T_0301_0900) =>
                \A l \in leaves' \ leaves :
                    /\ l.status = "PENDING"
                    /\ l.employee \in OwnEmployeeIds(u)
                    /\ l.applied_at = T_0301_0900
                    /\ l.approved_by = NullUser /\ l.approved_at = NullTime
                    /\ leaves' = leaves \cup {l}
       /\ \A l \in leaves : \A m \in leaves' :
            m.pk = l.pk =>
                (m.applied_at = l.applied_at /\ m.employee = l.employee)
      ]_vars

\* asha's leave, applied for at 09:00, was decided at 17:30 by ravi, who is
\* still a staff account: applied_at is the time of the application
AppliedThenDecidedWitness ==
    \E l \in leaves :
        /\ l.employee \in OwnEmployeeIds("asha")
        /\ l.status \in Decided
        /\ l.applied_at = T_0301_0900
        /\ l.approved_at = T_0301_1730
        /\ l.approved_by = "ravi"

\* C16: leave_list shows a staff viewer every Leave and a viewer who is not
\* staff exactly the Leaves of the viewer's own Employee, never a Leave of
\* another employee.
LeaveListOwnOrAll ==
    \A u \in users :
        u.is_active =>
            LET listed == LeaveList(leaves, employees, u.username, u.is_staff).leaves
            IN  /\ u.is_staff => listed = leaves
                /\ ~u.is_staff =>
                      /\ \A l \in listed : l.employee \in OwnEmployeeIds(u.username)
                      /\ \A l \in leaves :
                            l.employee \in OwnEmployeeIds(u.username) => l \in listed
                      /\ listed \subseteq leaves

\* asha (not staff) and ravi (staff) each have a Leave: asha is listed her
\* own one, ravi both
LeaveListWitness ==
    /\ \E l \in leaves : l.employee = "EMP1"
    /\ \E l \in leaves : l.employee = "EMP2"
    /\ LoggedIn("asha") /\ ~IsStaff("asha")
    /\ LET listed == LeaveList(leaves, employees, "asha", FALSE).leaves
       IN  Cardinality(listed) = 1 /\ \A l \in listed : l.employee = "EMP1"
    /\ StaffMember("ravi")
    /\ Cardinality(LeaveList(leaves, employees, "ravi", TRUE).leaves) = 2

\* the Attendance and Leave rows of an employee
RowsOf(db, employee_id) ==
    [attendances |-> {a \in db.attendances : a.employee = employee_id},
     leaves |-> {l \in db.leaves : l.employee = employee_id}]

NoRows == [attendances |-> {}, leaves |-> {}]

\* a bulk delete of the selected employees of database before, with the
\* given failures, that ends in database after and reports count: an
\* employee whose block raised is intact with all its rows, every other
\* selected employee is gone with its rows, employees not selected are
\* untouched, and count is the number of Employee rows removed
BulkDeleteOutcome(before, after, selected, fail, count) ==
    /\ \A e \in selected :
          IF fail[e.employee_id] # "none"
          THEN /\ e \in after.employees
               /\ RowsOf(after, e.employee_id) = RowsOf(before, e.employee_id)
          ELSE /\ EmployeesWithId(after.employees, e.employee_id) = {}
               /\ RowsOf(after, e.employee_id) = NoRows
    /\ \A e \in before.employees \ selected :
          /\ e \in after.employees
          /\ RowsOf(after, e.employee_id) = RowsOf(before, e.employee_id)
    /\ after.employees \subseteq before.employees
    /\ count = Cardinality(before.employees \ after.employees)
    /\ count = Cardinality({e \in selected : fail[e.employee_id] = "none"})

\* C17: delete_all_inactive_users and bulk_delete_by_department, run in any
\* reachable state with any failures, handle each selected employee on its
\* own: a failure in one employee's block leaves its Employee, Attendance
\* and Leave rows as they were, the other selected employees are deleted all
\* the same, and the count reported is the number of employees deleted.
BulkDeletePerEmployee ==
    \A fail \in BulkFailures :
        /\ LET selected == InactiveEmployees(users, employees)
               result == BulkDeleteLoop(Database, selected, fail, 0)
           IN  BulkDeleteOutcome(Database, result.db, selected, fail, result.count)
        /\ \A dept \in Departments :
              LET selected == EmployeesOfDepartment(employees, dept)
                  result == BulkDeleteLoop(Database, selected, fail, 0)
              IN  BulkDeleteOutcome(Database, result.db, selected, fail,
                                    result.count)

\* of two terminated employees one is gone and the other, whose block
\* raised, is still there with its Attendance and Leave rows
BulkDeletePartialWitness ==
    /\ \A u \in users : ~u.is_active
    /\ Cardinality(users) = 2
    /\ Cardinality(employees) = 1
    /\ \E e \in employees :
          /\ \E a \in attendances : a.employee = e.employee_id
          /\ \E l \in leaves : l.employee = e.employee_id

\* a step of one of the handlers of urls.py: register, mark attendance,
\* apply leave, leave list, monthly report, user list, terminate, activate
RequestHandlerStep ==
    \/ \E data \in RegisterForms : register_employee(data)
    \/ \E data \in LifecycleMarkForms : mark_attendance(data, T_0301_0900)
    \/ \E u \in Usernames, data \in LeaveForms : apply_leave(u, data, T_0301_0900)
    \/ \E u \in Usernames : leave_list(u)
    \/ \E u \in Usernames, y \in ReportYears, m \in ReportMonths,
          d \in ReportDepartments : monthly_report(u, y, m, d)
    \/ \E u \in Usernames : user_list(u)
    \/ \E u \in Usernames, id \in EmployeeIds : terminate_employee(u, id)
    \/ \E u \in Usernames, id \in EmployeeIds : activate_employee(u, id)

\* C18: no handler of urls.py removes a User, Employee, Attendance or Leave
\* row: over such a step every row present before is present after (by
\* username, employee_id and primary key), so the tables only grow.
HandlersNeverDelete ==
    [][\/ /\ {u.username : u \in users} \subseteq {u.username : u \in users'}
          /\ employees \subseteq employees'
          /\ {a.pk : a \in attendances} \subseteq {a.pk : a \in attendances'}
          /\ \A a \in attendances : \A b \in attendances' :
                b.pk = a.pk => (b.employee = a.employee /\ b.date = a.date)
          /\ leaves \subseteq leaves'
       \/ ~RequestHandlerStep
      ]_vars

\* both accounts registered, one of them terminated, with two Attendance
\* rows and a Leave: registration, marking, applying and terminating have
\* all acted and every row they made is there
HandlersActedWitness ==
    /\ Cardinality(users) = 2 /\ Cardinality(employees) = 2
    /\ Cardinality(attendances) = 2
    /\ \E l \in leaves : l.status = "PENDING"
    /\ \E u \in users : ~u.is_active /\ ~u.is_staff
    /\ nextAttendancePk = 3

\* C19: when an IN mark and an OUT mark for the same employee and date are
\* the two requests handled, in whatever interleaving of their statements,
\* and both have answered ok, the stored row has clock_in the IN timestamp,
\* clock_out the OUT timestamp and worked_seconds computed from the two.
ConcurrentMarksKeepBothClocks ==
    \A p, q \in DOMAIN requests :
        (/\ DOMAIN requests = {p, q}
         /\ requests[p].pc = "done" /\ requests[q].pc = "done"
         /\ requests[p].req.action = "IN" /\ requests[q].req.action = "OUT"
         /\ requests[p].req.employee_id = requests[q].req.employee_id
         /\ requests[p].req.date = requests[q].req.date) =>
            \E a \in attendances :
                /\ a.employee = requests[p].req.employee_id
                /\ a.date = requests[p].req.date
                /\ a.clock_in = requests[p].req.timestamp
                /\ a.clock_out = requests[q].req.timestamp
                /\ a.worked_seconds =
                      Max(0, (a.clock_out - a.clock_in) \div TicksPerSecond)

\* C20: after any sequence of register, mark, apply, approve, reject,
\* terminate, activate and hard-delete operations every Attendance row and
\* every Leave row refers to an existing Employee, every Employee refers to
\* an existing User, and no two Employees share an employee_id or a User.
ReferentialIntegrity ==
    /\ \A a \in attendances : \E e \in employees : e.employee_id = a.employee
    /\ \A l \in leaves : \E e \in employees : e.employee_id = l.employee
    /\ \A e \in employees : \E u \in users : u.username = e.user
    /\ \A e, f \in employees :
          (e.employee_id = f.employee_id \/ e.user = f.user) => e = f
    /\ \A u, v \in users : u.username = v.username => u = v

\* after a hard delete has left a User without Employee, the employee_id is
\* registered again and its new holder has an Attendance row and a Leave
AfterDeleteAndReuseWitness ==
    /\ \E u \in users : EmployeesOfUser(employees, u.username) = {}
    /\ \E e \in employees :
          /\ \E a \in attendances : a.employee = e.employee_id /\ a.pk > 1
          /\ \E l \in leaves : l.employee = e.employee_id
    /\ Cardinality(employees) = 1

\* the timestamp lies within the local calendar day numbered date: from its
\* midnight in the fixed zone up to, not including, the next one
OnLocalDay(ts, date) ==
    LET localSeconds == (ts \div TicksPerSecond) + TzOffsetSeconds
    IN  /\ date * SecondsPerDay <= localSeconds
        /\ localSeconds < (date + 1) * SecondsPerDay

\* C21: in every Attendance row written by mark_attendance a clock_in and a
\* clock_out that are set lie on the row's own date in the local zone; so no
\* row holds an IN of one day together with an OUT after the next midnight,
\* and worked_seconds of every row is below 86400.
ClocksOnOwnDate ==
    \A a \in attendances :
        /\ a.clock_in # NullTime => OnLocalDay(a.clock_in, a.date)
        /\ a.clock_out # NullTime => OnLocalDay(a.clock_out, a.date)
        /\ ~(a.clock_in = T_0229_2350 /\ a.clock_out = T_0301_0010)
        /\ a.worked_seconds < 86400

\* EMP1 clocked in at 23:50 on 2024-02-29 and out at 00:10 on 2024-03-01:
\* two rows, the first with the clock_in alone, the second with the
\* clock_out alone, and no worked seconds on either; EMP2 clocked in at the
\* first and out at the last instant of 2024-03-01: one row, 86399 seconds
MidnightSplitWitness ==
    /\ \E a \in attendances :
          /\ a.employee = "EMP1" /\ a.date = DateOf(2024, 2, 29)
          /\ a.clock_in = T_0229_2350 /\ a.clock_out = NullTime
          /\ a.worked_seconds = 0
    /\ \E a \in attendances :
          /\ a.employee = "EMP1" /\ a.date = DateOf(2024, 3, 1)
          /\ a.clock_in = NullTime /\ a.clock_out = T_0301_0010
          /\ a.worked_seconds = 0
    /\ \E a \in attendances :
          /\ a.employee = "EMP2" /\ a.date = DateOf(2024, 3, 1)
          /\ a.clock_in = T_0301_0000 /\ a.clock_out = T_0301_2359
          /\ a.worked_seconds = 86399

\* the form of an IN or OUT mark of an employee at a timestamp
MarkOf(employee_id, action, timestamp) ==
    [employee_id |-> employee_id, action |-> action, timestamp |-> timestamp]

\* two marks applied one after the other to the stored table
MarkedTwice(first, second) ==
    LET one == MarkApplied(attendances, nextAttendancePk, employees, first,
                           T_0301_0900)
    IN  MarkApplied(one.rows, one.pk, employees, second, T_0301_0900)

\* C22: from any stored table, for an employee and timestamps a and b of one
\* local date, IN at a then OUT at b and OUT at b then IN at a end in the
\* same table, whose row for that employee and date has clock_in a,
\* clock_out b and worked_seconds max(0, b - a in whole seconds); applying a
\* mark a second time changes nothing.  MarkApplied is what a
\* mark_attendance step does to the table.
MarksCommuteAndRepeat ==
    /\ [](\A id \in EmployeeIds : \A a, b \in AttendanceTimes :
            LocalDate(a) = LocalDate(b) =>
                LET markIn == MarkOf(id, "IN", a)
                    markOut == MarkOf(id, "OUT", b)
                    inOut == MarkedTwice(markIn, markOut)
                    outIn == MarkedTwice(markOut, markIn)
                    onceIn == MarkApplied(attendances, nextAttendancePk,
                                          employees, markIn, T_0301_0900)
                    onceOut == MarkApplied(attendances, nextAttendancePk,
                                           employees, markOut, T_0301_0900)
                IN  /\ inOut = outIn
                    /\ \E r \in inOut.rows :
                          /\ AttendancesOn(inOut.rows, id, LocalDate(a)) = {r}
                          /\ r.clock_in = a /\ r.clock_out = b
                          /\ r.worked_seconds =
                                IF b < a THEN 0 ELSE (b - a) \div TicksPerSecond
                    /\ MarkedTwice(markIn, markIn) = onceIn
                    /\ MarkedTwice(markOut, markOut) = onceOut
                    /\ MarkApplied(inOut.rows, inOut.pk, employees, markIn,
                                   T_0301_0900) = inOut
                    /\ MarkApplied(inOut.rows, inOut.pk, employees, markOut,
                                   T_0301_0900) = inOut)
    /\ [][\A data \in MarkForms : \A now \in MarkClock(data) :
            mark_attendance(data, now) =>
                LET applied == MarkApplied(attendances, nextAttendancePk,
                                           employees, data, now)
                IN  /\ attendances' = applied.rows
                    /\ nextAttendancePk' = applied.pk]_vars

\* EMP1's only row: clocked in at 17:30 and out at 09:00 on 2024-03-01, so
\* no worked seconds; marking IN at 09:00 and OUT at 17:30 on top of it, in
\* either order, gives 30600
MarksCommuteWitness ==
    /\ response = "ok"
    /\ \E r \in attendances :
          /\ AttendancesOn(attendances, "EMP1", DateOf(2024, 3, 1)) = {r}
          /\ r.clock_in = T_0301_1730 /\ r.clock_out = T_0301_0900
          /\ r.worked_seconds = 0
    /\ LET inOut == MarkedTwice(MarkOf("EMP1", "IN", T_0301_0900),
                                MarkOf("EMP1", "OUT", T_0301_1730))
           outIn == MarkedTwice(MarkOf("EMP1", "OUT", T_0301_1730),
                                MarkOf("EMP1", "IN", T_0301_0900))
       IN  /\ inOut = outIn
           /\ \E r \in inOut.rows :
                 /\ r.employee = "EMP1" /\ r.clock_in = T_0301_0900
                 /\ r.clock_out = T_0301_1730 /\ r.worked_seconds = 30600

=============================================================================
